---------------------------- MODULE Spec2Model ----------------------------
(***************************************************************************)
(* Model of the Simple Auth API (src/main.py, src/schemas.py,              *)
(* src/config.py): the request handlers register, login, get_all_users and *)
(* get_user_by_username running as concurrent requests against one user    *)
(* table.  The user table (models.py), the session (database.py) and the   *)
(* hasher and token issuer (auth.py) are collaborators whose source is not *)
(* part of src/; they are modelled from their contract in spec.md.         *)
(***************************************************************************)
EXTENDS Integers, Sequences, FiniteSets, TLC

VARIABLES
    store,      \* the users table, in insertion order (rows of models.User)
    nextId,     \* the table's identifier sequence
    now,        \* the server clock, in minutes
    ticks,      \* clock steps taken so far
    settings,   \* config.settings, loaded once at startup
    pc,         \* pc[p]: position of request worker p inside its handler
    req,        \* req[p]: the request worker p is handling
    resp,       \* resp[p]: the HTTP response of worker p's request
    page,       \* page[p]: rows of get_all_users' first query, between its queries
    db_user,    \* db_user[p]: identifier of the row register() committed, until refreshed
    alone,      \* alone[p]: no other transaction committed since p's request began
    registered, \* history: username -> password given at its successful register
    verified    \* history: the last verification of an issued token

vars ==
    <<store, nextId, now, ticks, settings, pc, req, resp, page, db_user, alone, registered,
      verified>>

-----------------------------------------------------------------------------
(* Bounds of the model *)

MaxSkip == 1          \* largest skip / limit a list request carries in Spec
MaxTicks == 3         \* clock steps taken in SpecToken
SeedUsers == 15       \* largest pre-registered table in SpecList
ListRange == 11       \* largest limit a list request carries in SpecList
ListSkip == 6         \* largest skip a list request carries in SpecList

\* two requests handled at the same time
Workers == {"w1", "w2"}

(* Request inputs *)
Emails == {"ann@x.io", "bob@x.io"}
Names == {"ann", "bobby", "al"}
Secrets == {"password1", "hunter2hunter", "short"}
FullNames == {"A. User"}
Salts == {1, 2}

NoReq == [op |-> "none"]
NoResp == [status |-> 0, body |-> [none |-> TRUE]]

-----------------------------------------------------------------------------
(* schemas.py *)

\* UserRegister: the register bodies the validation layer lets through
UserRegister ==
    {u \in [email : Emails, username : Names, password : Secrets, full_name : FullNames] :
        /\ Len(u.username) >= 3
        /\ Len(u.username) <= 50
        /\ Len(u.password) >= 8}

\* UserLogin: no constraint beyond two strings
UserLogin == [username : Names, password : Secrets]

\* variant: the row returned without the response_model filter
UserResponseUnfiltered(row) == row

\* UserResponse: the response_model filter applied to a models.User row
UserResponse(row) ==
    [id |-> row.id, email |-> row.email, username |-> row.username,
     full_name |-> row.full_name, is_active |-> row.is_active]

\* Token: the response_model of /login
Token(access_token, token_type, message) ==
    [access_token |-> access_token, token_type |-> token_type, message |-> message]

-----------------------------------------------------------------------------
(* auth.py (contract of spec.md 4.1, 4.2) *)

\* the self-describing hash string: algorithm, salt, digest of (salt, password)
Encode(salt, password) == "$h$" \o ToString(salt) \o "$" \o password

hash_password(password, salt) == Encode(salt, password)

\* recompute with the salt the hash carries and compare; FALSE on a malformed hash
verify_password(password, hashed) == \E s \in Salts : hashed = Encode(s, password)

\* claims plus issued-at and expiry, signed with the server's key
create_access_token(data, expires_delta, key, t) ==
    [user_id |-> data.user_id, username |-> data.username,
     iat |-> t, exp |-> t + expires_delta, sig |-> key]

\* valid iff signed with the server's key and the clock is not past expiry
verify_token(token, key, t) == token.sig = key /\ t <= token.exp

-----------------------------------------------------------------------------
(* models.py / database.py (contract of spec.md 3, 4.3) *)

RowIndex(s) == 1..Len(s)

\* db.query(User).filter(User.email == email).first()
find_by_email(s, email) ==
    IF \E i \in RowIndex(s) : s[i].email = email
    THEN <<s[CHOOSE i \in RowIndex(s) :
               s[i].email = email /\ \A j \in RowIndex(s) : s[j].email = email => i <= j]>>
    ELSE <<>>

\* db.query(User).filter(User.username == username).first()
find_by_username(s, username) ==
    IF \E i \in RowIndex(s) : s[i].username = username
    THEN <<s[CHOOSE i \in RowIndex(s) :
               s[i].username = username
               /\ \A j \in RowIndex(s) : s[j].username = username => i <= j]>>
    ELSE <<>>

\* variant: a table declared without uniqueness constraints
NoUniquenessConstraint(s, email, username) == FALSE

\* the table's uniqueness constraints on email and username
UniquenessViolation(s, email, username) ==
    \E i \in RowIndex(s) : s[i].email = email \/ s[i].username = username

\* models.User(...): a new row, is_active defaulting to TRUE, created_at set by the server
NewUser(id, email, username, hashed_password, full_name, t) ==
    [id |-> id, email |-> email, username |-> username,
     hashed_password |-> hashed_password, full_name |-> full_name,
     is_active |-> TRUE, created_at |-> t]

\* db.query(User).offset(skip).limit(limit).all()
OffsetLimit(s, skip, limit) ==
    SubSeq(s, skip + 1, IF skip + limit < Len(s) THEN skip + limit ELSE Len(s))

\* db.query(User).count()
Count(s) == Len(s)

-----------------------------------------------------------------------------
(* main.py: responses *)

HTTPException(status_code, detail) == [status |-> status_code, body |-> [detail |-> detail]]

\* an exception no handler catches: the framework's 500 response
InternalServerError == [status |-> 500, body |-> [detail |-> "Internal Server Error"]]

Response(status_code, body) == [status |-> status_code, body |-> body]


-----------------------------------------------------------------------------
(* main.py: handlers as functions of what their queries read *)

TokenHours == 24

\* the token and greeting of a successful login, with a given lifetime in minutes
LoginOk(user, minutes, key, t) ==
    Response(200,
        Token(create_access_token([user_id |-> user.id, username |-> user.username],
                                  minutes, key, t),
              "bearer",
              "Welcome back, " \o user.username \o "!"))

\* variant: the is_active check left out
login_without_active_check(s, credentials, key, t) ==
    LET found == find_by_username(s, credentials.username) IN
    IF found = <<>> \/ ~verify_password(credentials.password, found[1].hashed_password)
    THEN HTTPException(401, "Invalid username or password")
    ELSE LoginOk(found[1], TokenHours * 60, key, t)

\* variant: a separate error for an unknown username
login_with_distinct_errors(s, credentials, key, t) ==
    LET found == find_by_username(s, credentials.username) IN
    IF found = <<>>
    THEN HTTPException(401, "User not found")
    ELSE IF ~verify_password(credentials.password, found[1].hashed_password)
    THEN HTTPException(401, "Invalid username or password")
    ELSE IF ~found[1].is_active
    THEN HTTPException(403, "Account is disabled")
    ELSE LoginOk(found[1], TokenHours * 60, key, t)

\* variant: the token lifetime taken from settings.ACCESS_TOKEN_EXPIRE_MINUTES
login_with_configured_lifetime(s, credentials, key, t) ==
    LET found == find_by_username(s, credentials.username) IN
    IF found = <<>> \/ ~verify_password(credentials.password, found[1].hashed_password)
    THEN HTTPException(401, "Invalid username or password")
    ELSE IF ~found[1].is_active
    THEN HTTPException(403, "Account is disabled")
    ELSE LoginOk(found[1], settings.ACCESS_TOKEN_EXPIRE_MINUTES, key, t)

\* variant: `and` for `or` in the credentials check, so that a found user's
\* password is never verified
login_without_password_check(s, credentials, key, t) ==
    LET found == find_by_username(s, credentials.username) IN
    IF found = <<>>
    THEN HTTPException(401, "Invalid username or password")
    ELSE IF ~found[1].is_active
    THEN HTTPException(403, "Account is disabled")
    ELSE LoginOk(found[1], TokenHours * 60, key, t)

\* login(): one query, then the checks in the handler's order
login(s, credentials, key, t) ==
    LET found == find_by_username(s, credentials.username) IN
    IF found = <<>> \/ ~verify_password(credentials.password, found[1].hashed_password)
    THEN HTTPException(401, "Invalid username or password")
    ELSE IF ~found[1].is_active
    THEN HTTPException(403, "Account is disabled")
    ELSE LoginOk(found[1], TokenHours * 60, key, t)

\* the projection of a row in the listing
ListedUser(row) ==
    [id |-> row.id, email |-> row.email, username |-> row.username,
     full_name |-> row.full_name, created_at |-> row.created_at]

\* variant: total taken from the page instead of the count query
UserListingTotalOfPage(rows, total) ==
    [total |-> Len(rows),
     showing |-> Len(rows),
     users |-> [i \in 1..Len(rows) |-> ListedUser(rows[i])]]

\* get_all_users(): the body built from the rows of the first query and the count
\* of the second
UserListing(rows, total) ==
    [total |-> total,
     showing |-> Len(rows),
     users |-> [i \in 1..Len(rows) |-> ListedUser(rows[i])]]

\* get_user_by_username()
get_user_by_username(s, username) ==
    LET found == find_by_username(s, username) IN
    IF found = <<>>
    THEN HTTPException(404, "User not found")
    ELSE Response(200, UserResponse(found[1]))

-----------------------------------------------------------------------------
(* State machine *)

InFlight(p) == pc[p] \in {"check_username", "commit"}

\* a commit of another transaction is seen by every request still in flight
Disturbed(p) == [q \in Workers |-> IF q # p /\ InFlight(q) THEN FALSE ELSE alone[q]]

Settings == [ACCESS_TOKEN_EXPIRE_MINUTES : {1440, 60}, SECRET_KEY : {"k1"}]

NoToken == [user_id |-> 0, username |-> "", iat |-> 0, exp |-> 0, sig |-> ""]
NoVerification == [token |-> NoToken, at |-> -1, ok |-> FALSE]

\* clock steps: a minute, or a minute short of a day
TickSteps == {1, 1439}

Init ==
    /\ store = <<>>
    /\ nextId = 1
    /\ now = 0
    /\ ticks = 0
    /\ settings = [ACCESS_TOKEN_EXPIRE_MINUTES |-> 1440, SECRET_KEY |-> "k1"]
    /\ pc = [p \in Workers |-> "ready"]
    /\ req = [p \in Workers |-> NoReq]
    /\ resp = [p \in Workers |-> NoResp]
    /\ page = [p \in Workers |-> <<>>]
    /\ db_user = [p \in Workers |-> 0]
    /\ alone = [p \in Workers |-> TRUE]
    /\ registered = [n \in Names |-> "none"]
    /\ verified = NoVerification

\* register(), lines 61-66: the email pre-check
RegisterCheckEmail(p, user) ==
    /\ pc[p] = "ready"
    /\ req' = [req EXCEPT ![p] = [op |-> "register", user |-> user]]
    /\ IF find_by_email(store, user.email) # <<>>
       THEN /\ resp' = [resp EXCEPT ![p] = HTTPException(409, "Email already registered")]
            /\ pc' = [pc EXCEPT ![p] = "done"]
       ELSE /\ pc' = [pc EXCEPT ![p] = "check_username"]
            /\ UNCHANGED resp
    /\ UNCHANGED <<store, nextId, now, ticks, settings, page, db_user, alone, registered, verified>>

\* variant: the username pre-check left out
RegisterSkipUsernameCheck(p) ==
    /\ pc[p] = "check_username"
    /\ pc' = [pc EXCEPT ![p] = "commit"]
    /\ UNCHANGED <<store, nextId, now, ticks, settings, req, resp, page, db_user, alone, registered,
                   verified>>

\* register(), lines 68-73: the username pre-check
RegisterCheckUsername(p) ==
    /\ pc[p] = "check_username"
    /\ IF find_by_username(store, req[p].user.username) # <<>>
       THEN /\ resp' = [resp EXCEPT ![p] = HTTPException(409, "Username already taken")]
            /\ pc' = [pc EXCEPT ![p] = "done"]
       ELSE /\ pc' = [pc EXCEPT ![p] = "commit"]
            /\ UNCHANGED resp
    /\ UNCHANGED <<store, nextId, now, ticks, settings, req, page, db_user, alone, registered, verified>>

\* variant: an upsert for the insert, so that a refused insert overwrites the
\* row that holds the email or username
RegisterCommitMerging(p, salt) ==
    /\ pc[p] = "commit"
    /\ LET user == req[p].user
           row == NewUser(nextId, user.email, user.username,
                          hash_password(user.password, salt), user.full_name, now)
           held == {i \in RowIndex(store) :
                       store[i].email = user.email \/ store[i].username = user.username}
       IN IF UniquenessViolation(store, user.email, user.username)
          THEN /\ store' = [i \in RowIndex(store) |->
                               IF i \in held
                               THEN [row EXCEPT !.id = store[i].id]
                               ELSE store[i]]
               /\ db_user' = [db_user EXCEPT
                                 ![p] = store[CHOOSE i \in held : \A j \in held : i <= j].id]
               /\ UNCHANGED <<nextId, alone, registered>>
          ELSE /\ store' = Append(store, row)
               /\ nextId' = nextId + 1
               /\ db_user' = [db_user EXCEPT ![p] = row.id]
               /\ alone' = Disturbed(p)
               /\ registered' = [registered EXCEPT ![user.username] = user.password]
    /\ pc' = [pc EXCEPT ![p] = "refresh"]
    /\ UNCHANGED <<now, ticks, settings, req, resp, page, verified>>

\* register(), lines 75-84: hash, add, commit.  The insert is refused by the
\* table's uniqueness constraint when a concurrent request has committed the
\* same email or username since the pre-checks; the handler does not catch
\* that error.  A committed row is visible to every later query.
RegisterCommit(p, salt) ==
    /\ pc[p] = "commit"
    /\ LET user == req[p].user
           row == NewUser(nextId, user.email, user.username,
                          hash_password(user.password, salt), user.full_name, now)
       IN IF UniquenessViolation(store, user.email, user.username)
          THEN /\ resp' = [resp EXCEPT ![p] = InternalServerError]
               /\ pc' = [pc EXCEPT ![p] = "done"]
               /\ UNCHANGED <<store, nextId, db_user, alone, registered>>
          ELSE /\ store' = Append(store, row)
               /\ nextId' = nextId + 1
               /\ db_user' = [db_user EXCEPT ![p] = row.id]
               /\ pc' = [pc EXCEPT ![p] = "refresh"]
               /\ alone' = Disturbed(p)
               /\ registered' = [registered EXCEPT ![user.username] = user.password]
               /\ UNCHANGED resp
    /\ UNCHANGED <<now, ticks, settings, req, page, verified>>

\* the row with a given identifier: the SELECT by primary key of db.refresh
RowById(s, id) == s[CHOOSE i \in RowIndex(s) : s[i].id = id]

\* register(), lines 85-87: refresh reads the committed row back in a new
\* transaction, and the row as read is returned
RegisterRefresh(p) ==
    /\ pc[p] = "refresh"
    /\ resp' = [resp EXCEPT ![p] = Response(201, UserResponse(RowById(store, db_user[p])))]
    /\ db_user' = [db_user EXCEPT ![p] = 0]
    /\ pc' = [pc EXCEPT ![p] = "done"]
    /\ UNCHANGED <<store, nextId, now, ticks, settings, req, page, alone, registered, verified>>

\* login(), lines 97-126
Login(p, credentials) ==
    /\ pc[p] = "ready"
    /\ req' = [req EXCEPT ![p] = [op |-> "login", credentials |-> credentials]]
    /\ resp' = [resp EXCEPT ![p] = login(store, credentials, settings.SECRET_KEY, now)]
    /\ pc' = [pc EXCEPT ![p] = "done"]
    /\ UNCHANGED <<store, nextId, now, ticks, settings, page, db_user, alone, registered, verified>>

\* get_all_users(), line 136: the page query
ListQuery(p, skip, limit) ==
    /\ pc[p] = "ready"
    /\ req' = [req EXCEPT ![p] = [op |-> "list", skip |-> skip, limit |-> limit]]
    /\ page' = [page EXCEPT ![p] = OffsetLimit(store, skip, limit)]
    /\ pc' = [pc EXCEPT ![p] = "count"]
    /\ UNCHANGED <<store, nextId, now, ticks, settings, resp, db_user, alone, registered,
                   verified>>

\* get_all_users(), lines 138-151: the count query and the body
ListCount(p) ==
    /\ pc[p] = "count"
    /\ resp' = [resp EXCEPT ![p] = Response(200, UserListing(page[p], Count(store)))]
    /\ page' = [page EXCEPT ![p] = <<>>]
    /\ pc' = [pc EXCEPT ![p] = "done"]
    /\ UNCHANGED <<store, nextId, now, ticks, settings, req, db_user, alone, registered,
                   verified>>

\* get_user_by_username(), lines 153-164
GetUser(p, username) ==
    /\ pc[p] = "ready"
    /\ req' = [req EXCEPT ![p] = [op |-> "get", username |-> username]]
    /\ resp' = [resp EXCEPT ![p] = get_user_by_username(store, username)]
    /\ pc' = [pc EXCEPT ![p] = "done"]
    /\ UNCHANGED <<store, nextId, now, ticks, settings, page, db_user, alone, registered, verified>>

\* the response leaves; the worker takes the next request
Return(p) ==
    /\ pc[p] = "done"
    /\ pc' = [pc EXCEPT ![p] = "ready"]
    /\ req' = [req EXCEPT ![p] = NoReq]
    /\ resp' = [resp EXCEPT ![p] = NoResp]
    /\ alone' = [alone EXCEPT ![p] = TRUE]
    /\ UNCHANGED <<store, nextId, now, ticks, settings, page, db_user, registered, verified>>

\* an administrative process outside the API clears a user's active flag
AdminDeactivate(i) ==
    /\ i \in RowIndex(store)
    /\ store[i].is_active
    /\ store' = [store EXCEPT ![i].is_active = FALSE]
    /\ alone' = [q \in Workers |-> IF InFlight(q) THEN FALSE ELSE alone[q]]
    /\ UNCHANGED <<nextId, now, ticks, settings, pc, req, resp, page, db_user, registered, verified>>

Register ==
    \E p \in Workers :
        \/ \E user \in UserRegister : RegisterCheckEmail(p, user)
        \/ RegisterCheckUsername(p)
        \/ \E salt \in Salts : RegisterCommit(p, salt)
        \/ RegisterRefresh(p)

Handlers ==
    \/ Register
    \/ \E p \in Workers : \E credentials \in UserLogin : Login(p, credentials)
    \/ \E p \in Workers : \E skip \in 0..MaxSkip : \E limit \in 0..MaxSkip :
           ListQuery(p, skip, limit)
    \/ \E p \in Workers : ListCount(p)
    \/ \E p \in Workers : \E username \in Names : GetUser(p, username)

Next ==
    \/ Handlers
    \/ \E p \in Workers : Return(p)
    \/ \E i \in 1..Cardinality(Emails) : AdminDeactivate(i)

Spec == Init /\ [][Next]_vars

-----------------------------------------------------------------------------
(* Tokens over time: logins against a table holding one registered user,   *)
(* under every configured lifetime, with the clock running and a consumer  *)
(* verifying the issued tokens.                                            *)

Tick(d) ==
    /\ ticks < MaxTicks
    /\ now' = now + d
    /\ ticks' = ticks + 1
    /\ UNCHANGED <<store, nextId, settings, pc, req, resp, page, db_user, alone, registered, verified>>

\* a consumer presents the token of a login response for verification
VerifyToken(p) ==
    /\ pc[p] = "done"
    /\ req[p].op = "login"
    /\ resp[p].status = 200
    /\ verified' = [token |-> resp[p].body.access_token,
                    at |-> now,
                    ok |-> verify_token(resp[p].body.access_token, settings.SECRET_KEY, now)]
    /\ UNCHANGED <<store, nextId, now, ticks, settings, pc, req, resp, page, db_user, alone, registered>>

InitToken ==
    /\ \E user \in UserRegister : \E salt \in Salts :
           /\ store = <<NewUser(1, user.email, user.username,
                                hash_password(user.password, salt), user.full_name, 0)>>
           /\ registered = [n \in Names |->
                                IF n = user.username THEN user.password ELSE "none"]
    /\ nextId = 2
    /\ now = 0
    /\ ticks = 0
    /\ settings \in Settings
    /\ pc = [p \in Workers |-> "ready"]
    /\ req = [p \in Workers |-> NoReq]
    /\ resp = [p \in Workers |-> NoResp]
    /\ page = [p \in Workers |-> <<>>]
    /\ db_user = [p \in Workers |-> 0]
    /\ alone = [p \in Workers |-> TRUE]
    /\ verified = NoVerification

NextToken ==
    \/ \E p \in Workers : \E credentials \in UserLogin : Login(p, credentials)
    \/ \E p \in Workers : Return(p)
    \/ \E d \in TickSteps : Tick(d)
    \/ \E p \in Workers : VerifyToken(p)

SpecToken == InitToken /\ [][NextToken]_vars

-----------------------------------------------------------------------------
(* Listing: list requests against a table of up to SeedUsers users. *)

\* the table after n registrations
SeedStore(n) ==
    [i \in 1..n |->
        NewUser(i, "user" \o ToString(i) \o "@x.io", "user" \o ToString(i),
                hash_password("password1", 1), "A. User", 0)]

InitList ==
    /\ \E n \in 0..SeedUsers : store = SeedStore(n) /\ nextId = n + 1
    /\ now = 0
    /\ ticks = 0
    /\ settings = [ACCESS_TOKEN_EXPIRE_MINUTES |-> 1440, SECRET_KEY |-> "k1"]
    /\ pc = [p \in Workers |-> "ready"]
    /\ req = [p \in Workers |-> NoReq]
    /\ resp = [p \in Workers |-> NoResp]
    /\ page = [p \in Workers |-> <<>>]
    /\ db_user = [p \in Workers |-> 0]
    /\ alone = [p \in Workers |-> TRUE]
    /\ registered = [n \in Names |-> "none"]
    /\ verified = NoVerification

NextList ==
    \/ \E p \in Workers : \E skip \in 0..ListSkip : \E limit \in 0..ListRange :
           ListQuery(p, skip, limit)
    \/ \E p \in Workers : ListCount(p)
    \/ \E p \in Workers : Return(p)

SpecList == InitList /\ [][NextList]_vars


-----------------------------------------------------------------------------
(* Properties *)

Done(p, op) == pc[p] = "done" /\ req[p].op = op

\* the step in which worker p's login request is handled
LoginStep(p) == pc[p] = "ready" /\ pc'[p] = "done" /\ req'[p].op = "login"

EmailTaken(s, email) == \E i \in RowIndex(s) : s[i].email = email
UsernameTaken(s, username) == \E i \in RowIndex(s) : s[i].username = username

\* every row holding the email, or one of the usernames, of the requests of p
\* and q was created by one of these two requests
FreshBefore(p, q) ==
    \A i \in RowIndex(store) :
        (\/ store[i].email = req[p].user.email
         \/ store[i].username \in {req[p].user.username, req[q].user.username})
        => \E w \in {p, q} : resp[w].status = 201 /\ resp[w].body.id = store[i].id

\* C1: of two register requests carrying the same email, with neither the
\* email nor their usernames in the table beforehand, one ends 201 and the
\* other 409, whatever the interleaving of their steps.
C1_SameEmailOneCreatedOneConflict ==
    \A p, q \in Workers :
        (/\ p # q
         /\ Done(p, "register") /\ Done(q, "register")
         /\ req[p].user.email = req[q].user.email
         /\ FreshBefore(p, q))
        => \/ resp[p].status = 201 /\ resp[q].status = 409
           \/ resp[p].status = 409 /\ resp[q].status = 201

\* C2: no two rows of the user table share an email, and no two share a
\* username.
C2_EmailAndUsernameUnique ==
    \A i, j \in RowIndex(store) :
        i # j => store[i].email # store[j].email /\ store[i].username # store[j].username

\* two users are stored and a racing insert has been refused
C2_Witness == Len(store) = 2 /\ \E p \in Workers : resp[p].status = 500

\* C3: a login with the right password for a user whose active flag is
\* false is answered 403 "Account is disabled".
C3_DisabledAccountForbidden ==
    [][\A p \in Workers :
          LoginStep(p) =>
              LET c == req'[p].credentials
                  found == find_by_username(store, c.username)
              IN (/\ found # <<>>
                  /\ verify_password(c.password, found[1].hashed_password)
                  /\ ~found[1].is_active)
                 => resp'[p] = HTTPException(403, "Account is disabled")]_vars

\* a login with the registered password of a deactivated user was refused
C3_Witness ==
    \E p \in Workers :
        /\ Done(p, "login")
        /\ resp[p].status = 403
        /\ registered[req[p].credentials.username] = req[p].credentials.password

Unknown(c) == ~UsernameTaken(store, c.username)

WrongPassword(c) ==
    \E i \in RowIndex(store) :
        /\ store[i].username = c.username
        /\ ~verify_password(c.password, store[i].hashed_password)

\* C4: in every state of the table, a login for an unknown username and a
\* login for a known username with a wrong password get the same response,
\* 401 with the same detail, whether the known user is active or not.
C4_SameResponseUnknownOrWrongPassword ==
    LET unknown == {login(store, c, settings.SECRET_KEY, now) :
                       c \in {c \in UserLogin : Unknown(c)}}
        wrong == {login(store, c, settings.SECRET_KEY, now) :
                     c \in {c \in UserLogin : WrongPassword(c)}}
    IN \A r1 \in unknown : \A r2 \in wrong : r1 = r2 /\ r1.status = 401

\* both kinds of login have been answered, the wrong password against a
\* deactivated account
C4_Witness ==
    \E p, q \in Workers :
        /\ Done(p, "login") /\ Unknown(req[p].credentials)
        /\ Done(q, "login") /\ WrongPassword(req[q].credentials)
        /\ \E i \in RowIndex(store) :
               store[i].username = req[q].credentials.username /\ ~store[i].is_active
        /\ resp[p] = resp[q]

StoredHashes == {store[i].hashed_password : i \in RowIndex(store)}

TextFields == {"email", "username", "full_name", "detail", "message", "token_type", "sig"}

\* a JSON object with a hashed_password field, or with a stored hash as a value
Shows(object) ==
    \/ "hashed_password" \in DOMAIN object
    \/ \E f \in DOMAIN object \cap TextFields : object[f] \in StoredHashes

Exposes(body) ==
    \/ Shows(body)
    \/ "users" \in DOMAIN body /\ \E i \in 1..Len(body.users) : Shows(body.users[i])
    \/ "access_token" \in DOMAIN body /\ Shows(body.access_token)

\* C5: no response body, of a success or of an error, holds a password hash.
C5_NoHashInResponses == \A p \in Workers : ~Exposes(resp[p].body)

\* a created user and a listing of stored users have been returned
C5_Witness ==
    \E p, q \in Workers :
        /\ Done(p, "register") /\ resp[p].status = 201
        /\ Done(q, "list") /\ resp[q].body.showing >= 1

Min(a, b) == IF a < b THEN a ELSE b
Max(a, b) == IF a > b THEN a ELSE b

\* C6: a list request against a table of N users answers total = N and
\* showing = number of users returned = min(limit, max(0, N - skip)).
C6_TotalAndShowing ==
    \A p \in Workers :
        Done(p, "list")
        => /\ resp[p].status = 200
           /\ resp[p].body.total = Len(store)
           /\ resp[p].body.showing = Len(resp[p].body.users)
           /\ resp[p].body.showing = Min(req[p].limit, Max(0, Len(store) - req[p].skip))

\* 15 users, skip = 0, limit = 10: total = 15, showing = 10
C6_Witness ==
    \E p \in Workers :
        /\ Done(p, "list")
        /\ Len(store) = 15 /\ req[p].skip = 0 /\ req[p].limit = 10
        /\ resp[p].body.total = 15 /\ resp[p].body.showing = 10

\* C7: the token of a successful login carries the user's identifier and
\* username and expires 24 hours after it was issued, whatever lifetime is
\* configured; it verifies at every time up to that expiry and at none after.
C7_TokenExpiresAfter24Hours ==
    /\ \A p \in Workers :
           (Done(p, "login") /\ resp[p].status = 200)
           => LET t == resp[p].body.access_token IN
              /\ t.exp = t.iat + 24 * 60
              /\ t.iat <= now
              /\ t.username = req[p].credentials.username
              /\ \E i \in RowIndex(store) :
                     store[i].id = t.user_id /\ store[i].username = t.username
    /\ verified # NoVerification
       => /\ verified.at >= verified.token.iat
          /\ verified.ok <=> (verified.at <= verified.token.iat + 24 * 60)

\* a token was refused one minute after its expiry
C7_Witness ==
    /\ verified # NoVerification
    /\ verified.at = verified.token.iat + 24 * 60 + 1
    /\ ~verified.ok

\* a step of worker p inside register()
RegisterStep(p) ==
    /\ pc[p] \in {"ready", "check_username", "commit", "refresh"}
    /\ pc'[p] # pc[p]
    /\ req'[p].op = "register"

\* C8: a register request that runs undisturbed is refused, with 409,
\* exactly when its email or username is in the table, the email conflict
\* taking precedence, and otherwise inserts and ends 201; a register that
\* fails leaves the table as it was, one that succeeds appends exactly one
\* user, active, with the request's email and username.
C8_RegisterOutcome ==
    [][\A p \in Workers :
          RegisterStep(p) =>
              LET user == req'[p].user
                  emailTaken == EmailTaken(store, user.email)
                  nameTaken == UsernameTaken(store, user.username)
              IN /\ (pc[p] # "refresh" /\ (pc[p] = "ready" \/ alone[p]))
                    => /\ pc'[p] = "done"
                          => /\ emailTaken \/ nameTaken
                             /\ emailTaken
                                => resp'[p] = HTTPException(409, "Email already registered")
                             /\ ~emailTaken
                                => resp'[p] = HTTPException(409, "Username already taken")
                       /\ pc'[p] = "check_username" => ~emailTaken
                       /\ pc'[p] \in {"commit", "refresh"} => ~emailTaken /\ ~nameTaken
                 /\ pc'[p] # "refresh" => store' = store
                 /\ pc'[p] = "refresh"
                    => /\ Len(store') = Len(store) + 1
                       /\ SubSeq(store', 1, Len(store)) = store
                       /\ store'[Len(store')].email = user.email
                       /\ store'[Len(store')].username = user.username
                       /\ store'[Len(store')].is_active
                 /\ pc[p] = "refresh"
                    => /\ pc'[p] = "done"
                       /\ resp'[p].status = 201
                       /\ resp'[p].body.email = user.email
                       /\ resp'[p].body.username = user.username
                 /\ (pc'[p] = "done" /\ pc[p] # "refresh") => resp'[p].status # 201]_vars

\* a user was created, and a later request for the same username under
\* another email was refused
C8_Witness ==
    \E p, q \in Workers :
        /\ Done(p, "register") /\ resp[p].status = 201
        /\ Done(q, "register")
        /\ resp[q] = HTTPException(409, "Username already taken")

\* C9: a step of a request handler leaves every stored row as it is, and
\* changes the table only by appending one row, in the commit of a register
\* that goes on to end 201, under an identifier no stored row has.
C9_StoreOnlyGrows ==
    [][pc' # pc =>
          \/ store' = store
          \/ /\ \E p \in Workers :
                    pc[p] = "commit" /\ pc'[p] = "refresh" /\ req[p].op = "register"
             /\ Len(store') = Len(store) + 1
             /\ SubSeq(store', 1, Len(store)) = store
             /\ \A i \in RowIndex(store) : store[i].id # store'[Len(store')].id]_vars

\* two users are stored under different identifiers, and a racing insert
\* has been refused
C9_Witness ==
    /\ Len(store) = 2
    /\ store[1].id # store[2].id
    /\ \E p \in Workers : Done(p, "register") /\ resp[p].status = 500

\* C10: a login for a registered, active user is answered 200 with a bearer
\* token exactly when it carries the password given at registration, and
\* 401 with any other password.
C10_RegisterThenLogin ==
    [][\A p \in Workers :
          LoginStep(p) =>
              LET c == req'[p].credentials
                  found == find_by_username(store, c.username)
              IN (/\ registered[c.username] # "none"
                  /\ found # <<>>
                  /\ found[1].is_active)
                 => /\ resp'[p].status = 200 <=> c.password = registered[c.username]
                    /\ resp'[p].status = 200 => resp'[p].body.token_type = "bearer"
                    /\ resp'[p].status # 200
                       => resp'[p] = HTTPException(401, "Invalid username or password")]_vars

\* the same registered user was logged in with the registered password and
\* turned away with another
C10_Witness ==
    \E p, q \in Workers :
        /\ Done(p, "login") /\ resp[p].status = 200
        /\ Done(q, "login") /\ resp[q].status = 401
        /\ req[p].credentials.username = req[q].credentials.username
        /\ req[q].credentials.password # registered[req[q].credentials.username]

=============================================================================
